---- MODULE Spec2Model ----
(***************************************************************************)
(* Model of the terminal sprite engine of C64_Stuff/simONE/                *)
(* newSimONE_V3_MLver7.py: the frame loop of main(), the SIGWINCH handler, *)
(* the non-blocking key reader, the sprite sources and the compositor.     *)
(*                                                                         *)
(* Conventions                                                             *)
(*  - Python floats (positions, velocities) are fixed-point integers in    *)
(*    units of 1/Scale cell, every operation that rounds in the source     *)
(*    rounds here (round to nearest).                                      *)
(*  - time.time() is the integer clock `now`, in units of 10 ms.           *)
(*  - Colours are symbolic tokens; a sprite is a sequence of rows of       *)
(*    tokens, None being the transparent cell.                             *)
(*  - Every list index of the source is 0-based, every TLA+ sequence index *)
(*    1-based: canvas[cy][cx] of the source is canvas[cy+1][cx+1] here.    *)
(***************************************************************************)
EXTENDS Integers, Sequences, FiniteSets, TLC

\* ------------------------------------------------------------------------
\* Bounds of the model
\* ------------------------------------------------------------------------
\* frames the loop runs
MaxFrames == 2
\* environment events of one run: resizes of the terminal and keys typed
MaxEvents == 2

\* ------------------------------------------------------------------------
\* Program constants
\* ------------------------------------------------------------------------
Scale == 10000
AC == (5 * Scale) \div 100
TH == (42 * Scale) \div 100
DE == 98
FRAME_MS == 5
HOLD_TIMEOUT == 14
SMOOTH_LEVEL == 4
StartTime == 1000

None == "None"
\* an optional integer argument: NoArg when not given, << n >> when given as n
NoArg == << >>
\* the None a sprite loader returns: a sprite without rows
NoSprite == << >>
\* keys whose last-seen time is recorded
TrackedKeys == {"w", "a", "s", "d", "q", "i"}

\* the control hint of main(), one character per element
controls ==
  << "W"," ","A"," ","S"," ","D",":"," ","T","H","R","U","S","T"," ","|"," ",
     "Q",":"," ","Q","U","I","T"," ","|"," ","I",":"," ","T","O","G","G","L",
     "E"," ","H","U","D" >>

\* lengths of the four formatted HUD lines (values at their usual widths)
hud_lines == << 44, 38, 36, 38 >>

\* characters the terminal can deliver
KeyChars == {"w", "q", "Q", "i", "I"}

\* terminal sizes <<lines, columns>> the environment can report
TermSizes == { <<3, 8>>, <<32, 32>> }

\* command lines the program is started with, and whether Pillow imports
Launches ==
  { [planet_size |-> NoArg, sat_size |-> NoArg, planet_png |-> FALSE, sat_png |-> FALSE,
     debug |-> FALSE, pil |-> TRUE],
    [planet_size |-> NoArg, sat_size |-> NoArg, planet_png |-> TRUE, sat_png |-> FALSE,
     debug |-> TRUE, pil |-> TRUE],
    [planet_size |-> << 2 >>, sat_size |-> << 0 >>, planet_png |-> TRUE, sat_png |-> TRUE,
     debug |-> FALSE, pil |-> FALSE],
    [planet_size |-> << -1 >>, sat_size |-> << -1 >>, planet_png |-> FALSE, sat_png |-> TRUE,
     debug |-> FALSE, pil |-> TRUE] }

\* what the file system answers for a sprite path
FileStates == {"ok", "missing", "unreadable"}

\* ------------------------------------------------------------------------
\* Arithmetic helpers
\* ------------------------------------------------------------------------
Min(a, b) == IF a <= b THEN a ELSE b
Max(a, b) == IF a >= b THEN a ELSE b

\* Python truthiness of an optional integer argument
Truthy(v) == v # NoArg /\ v[1] # 0

\* round(p / q) to the nearest integer, q > 0 (float multiply-and-round)
RoundDiv(p, q) == (2 * p + q) \div (2 * q)

\* int(round(x)) of a non-negative fixed-point x: Python rounds half to even
IntRound(x) ==
  LET q == x \div Scale
      r == x % Scale
  IN  IF 2 * r < Scale THEN q
      ELSE IF 2 * r > Scale THEN q + 1
      ELSE IF q % 2 = 0 THEN q ELSE q + 1

\* a walled play-field: the position is held at the edge it crossed
FMod_clamped(x, m) == IF x < 0 THEN 0 ELSE IF x >= m * Scale THEN m * Scale - 1 ELSE x

\* x % m of a float x and a positive integer m
FMod(x, m) == x % (m * Scale)

\* ------------------------------------------------------------------------
\* Sprite sources
\* ------------------------------------------------------------------------
\* a square instead of a disc: the larger axis distance in place of hypot
InDisc_square(radius_cells, ss, x, y) ==
  LET high == (radius_cells * 2 + 1) * ss
      dx2 == 2 * x - (high - 1)
      dy2 == 2 * y - (high - 1)
  IN  4 * Max(dx2 * dx2, dy2 * dy2) <= (4 * radius_cells * ss + ss) * (4 * radius_cells * ss + ss)

\* generate_smooth_circle: a high-resolution sample (x, y) is inside when
\* hypot(x - center, y - center) <= radius*ss + 0.25*ss, center = (high-1)/2;
\* both sides are multiplied by 4 to stay in the integers.
InDisc(radius_cells, ss, x, y) ==
  LET high == (radius_cells * 2 + 1) * ss
      dx2 == 2 * x - (high - 1)
      dy2 == 2 * y - (high - 1)
  IN  4 * (dx2 * dx2 + dy2 * dy2) <= (4 * radius_cells * ss + ss) * (4 * radius_cells * ss + ss)

\* the grid one cell short: cells = radius_cells * 2
generate_smooth_circle_even_grid(radius_cells, color_rgb, supersample) ==
  LET cells == radius_cells * 2
      ss == Max(1, supersample)
      covered(cy, cx) ==
        Cardinality({ o \in (0 .. ss - 1) \X (0 .. ss - 1) :
                        InDisc(radius_cells, ss, cx * ss + o[2], cy * ss + o[1]) })
  IN  [ r \in 1 .. cells |->
        [ c \in 1 .. cells |->
            IF covered(r - 1, c - 1) = 0 THEN None ELSE color_rgb ] ]

generate_smooth_circle(radius_cells, color_rgb, supersample) ==
  LET cells == radius_cells * 2 + 1
      ss == Max(1, supersample)
      covered(cy, cx) ==
        Cardinality({ o \in (0 .. ss - 1) \X (0 .. ss - 1) :
                        InDisc(radius_cells, ss, cx * ss + o[2], cy * ss + o[1]) })
  IN  [ r \in 1 .. cells |->
        [ c \in 1 .. cells |->
            IF covered(r - 1, c - 1) = 0 THEN None ELSE color_rgb ] ]

\* load_png_sprite: None when the decoder is absent, the file cannot be
\* opened or the target is not positive; otherwise a target_cells square.
\* The decoded image is taken fully opaque, so every cell has a colour.
load_png_sprite(pil, readable, target_cells, color_rgb) ==
  IF ~pil THEN NoSprite
  ELSE IF ~readable THEN NoSprite
  ELSE IF target_cells <= 0 THEN NoSprite
  ELSE [ r \in 1 .. target_cells |-> [ c \in 1 .. target_cells |-> color_rgb ] ]

\* ------------------------------------------------------------------------
\* State
\* ------------------------------------------------------------------------
VARIABLES
  pc,                  \* position of main() in the frame loop
  frame,               \* frames started so far
  now,                 \* time.time()
  termSize,            \* <<lines, columns>> the terminal reports right now
  termMode,            \* "cooked" or "cbreak"
  old_settings,        \* termios.tcgetattr(fd) taken before the session
  tty_in,              \* characters typed and still in the kernel's tty queue
  stdin_buf,           \* characters sys.stdin has read ahead and not yet returned
  resized,             \* the flag sigwinch sets
  args, PIL_AVAILABLE,
  sh, sw, y0, x0,      \* stored size and anchor
  x1, y1, vx1, vy1,    \* the moving body
  planet_radius_cells, sat_radius,
  use_png_planet, use_png_sat,
  planet_sprite, sat_frames, sat_h, sat_w,
  debug, last_key_times, key, thrusting,
  canvas, out,         \* the frame being built, the frame last written
  nresize, nkeys,      \* environment events so far
  MODE,                \* the colour depth chosen at import: "truecolor", "256" or "16"
  _bg_cache, _fg_on_bg_cache,   \* the memo tables of the 256-colour encoders
  _bg_cache16, _fg_cache16,     \* the memo tables of the 16-colour encoders
  call, ret,           \* the function applied last with its arguments, and what it returned
  hist                 \* what the current step observed, read only by the properties

sim == << sh, sw, y0, x0, x1, y1, vx1, vy1, planet_radius_cells, sat_radius,
          use_png_planet, use_png_sat, planet_sprite, sat_frames, sat_h, sat_w >>

\* the colour encoders' state and the record of the last function call
quant == << MODE, _bg_cache, _fg_on_bg_cache, _bg_cache16, _fg_cache16, call, ret >>

vars == << pc, frame, now, termSize, termMode, old_settings, tty_in, stdin_buf,
           resized, args, PIL_AVAILABLE, sim, debug, last_key_times, key,
           thrusting, canvas, out, nresize, nkeys, quant, hist >>

LoopPCs == {"frame_start", "resize_sprites", "resize_clear", "input",
            "physics", "compose", "write", "sleep"}

\* ------------------------------------------------------------------------
\* Startup: main() up to the first iteration of the loop
\* ------------------------------------------------------------------------
auto_planet_radius(h, w) == Max(3, Min(12, Min(h, w) \div 8))
auto_sat_radius(h, w) == IF Min(h, w) < 40 THEN 1 ELSE 2

procedural_sat_frames(radius) ==
  << generate_smooth_circle(radius, "sat", Max(1, SMOOTH_LEVEL)),
     generate_smooth_circle(radius, "sat_bright", Max(1, SMOOTH_LEVEL)) >>

procedural_planet(radius) == generate_smooth_circle(radius, "planet", SMOOTH_LEVEL)

Init ==
  \E L \in Launches, ts \in TermSizes, pfile \in FileStates, sfile \in FileStates :
    LET pr == IF Truthy(L.planet_size) /\ L.planet_size[1] >= 1
              THEN L.planet_size[1] ELSE auto_planet_radius(ts[1], ts[2])
        sr == IF L.sat_size # NoArg /\ L.sat_size[1] >= 0
              THEN L.sat_size[1] ELSE auto_sat_radius(ts[1], ts[2])
        ptry == L.planet_png /\ L.pil /\ pfile # "missing"
        stry == L.sat_png /\ L.pil /\ sfile # "missing"
        ps == IF ptry THEN load_png_sprite(L.pil, pfile = "ok", pr * 2 + 1, "planet_png") ELSE NoSprite
        ss == IF stry THEN load_png_sprite(L.pil, sfile = "ok", sr * 2 + 1, "sat_png") ELSE NoSprite
        frames == IF ss # NoSprite THEN << ss, ss >> ELSE procedural_sat_frames(sr)
    IN  /\ (L.planet_png /\ L.pil) \/ pfile = "missing"
        /\ (L.sat_png /\ L.pil) \/ sfile = "missing"
        /\ args = [planet_size |-> L.planet_size, sat_size |-> L.sat_size,
                   planet_png |-> L.planet_png, sat_png |-> L.sat_png, debug |-> L.debug]
        /\ PIL_AVAILABLE = L.pil
        /\ termSize = ts
        /\ old_settings = "cooked"
        /\ termMode = "cbreak"
        /\ resized = FALSE
        /\ sh = ts[1] /\ sw = ts[2]
        /\ y0 = ts[1] \div 2 /\ x0 = ts[2] \div 2
        /\ y1 = (ts[1] \div 2) * Scale /\ x1 = (ts[2] \div 2 + 10) * Scale
        /\ vy1 = 0 /\ vx1 = 0
        /\ planet_radius_cells = pr /\ sat_radius = sr
        /\ use_png_planet = (ps # NoSprite)
        /\ use_png_sat = TRUE
        /\ planet_sprite = IF ps # NoSprite THEN ps ELSE procedural_planet(pr)
        /\ sat_frames = frames
        /\ sat_h = Len(frames[1]) /\ sat_w = Len(frames[1][1])
        /\ debug = L.debug
        /\ last_key_times = [k \in TrackedKeys |-> 0]
        /\ key = None /\ thrusting = FALSE
        /\ canvas = << >> /\ out = << >>
        /\ tty_in = << >> /\ stdin_buf = << >>
        /\ pc = "frame_start" /\ frame = 0 /\ now = StartTime
        /\ nresize = 0 /\ nkeys = 0
        /\ MODE = "truecolor"
        /\ _bg_cache = << >> /\ _fg_on_bg_cache = << >>
        /\ _bg_cache16 = << >> /\ _fg_cache16 = << >>
        /\ call = << >> /\ ret = << >>
        /\ hist = [ start_size |-> << >>,
                    planet_load |-> IF ptry THEN (IF ps = NoSprite THEN "failed" ELSE "ok") ELSE "none",
                    sat_load |-> IF stry THEN (IF ss = NoSprite THEN "failed" ELSE "ok") ELSE "none",
                    read |-> "none", pre_wrap |-> << >>,
                    frame_index |-> 0, q_ahead |-> -1, q_frames |-> 0, exit |-> "none" ]

\* ------------------------------------------------------------------------
\* The SIGWINCH handler: the terminal takes a new size and the handler runs
\* ------------------------------------------------------------------------
sigwinch(ts) ==
  /\ pc \in LoopPCs
  /\ nresize + nkeys < MaxEvents
  /\ ts # termSize
  /\ termSize' = ts
  /\ resized' = TRUE
  /\ nresize' = nresize + 1
  /\ UNCHANGED quant /\ UNCHANGED << pc, frame, now, termMode, old_settings, tty_in, stdin_buf, args,
                  PIL_AVAILABLE, sim, debug, last_key_times, key, thrusting, canvas,
                  out, nkeys, hist >>

\* A character is typed. Only the input step reads the queue, so a key typed
\* during any other step is the same key typed just before the next input step.
KeyPress(c) ==
  /\ pc = "input"
  /\ nresize + nkeys < MaxEvents
  /\ tty_in' = Append(tty_in, c)
  /\ nkeys' = nkeys + 1
  /\ hist' = IF c \in {"q", "Q"} /\ hist.q_ahead < 0
             THEN [hist EXCEPT !.q_ahead = Len(stdin_buf) + Len(tty_in), !.q_frames = 0]
             ELSE hist
  /\ UNCHANGED quant /\ UNCHANGED << pc, frame, now, termSize, termMode, old_settings, stdin_buf, resized,
                  args, PIL_AVAILABLE, sim, debug, last_key_times, key, thrusting,
                  canvas, out, nresize >>

\* ------------------------------------------------------------------------
\* The frame loop of main()
\* ------------------------------------------------------------------------
\* frame_start = time.time(); if resized: query the size, move the anchor,
\* re-wrap the body
FrameStart ==
  /\ pc = "frame_start"
  /\ frame < MaxFrames
  /\ frame' = frame + 1
  /\ hist' = [hist EXCEPT !.start_size = termSize, !.planet_load = "none",
                          !.sat_load = "none"]
  /\ IF resized
     THEN /\ sh' = termSize[1] /\ sw' = termSize[2]
          /\ y0' = termSize[1] \div 2 /\ x0' = termSize[2] \div 2
          /\ x1' = FMod(x1, termSize[2]) /\ y1' = FMod(y1, termSize[1])
          /\ pc' = "resize_sprites"
     ELSE /\ UNCHANGED << sh, sw, y0, x0, x1, y1 >>
          /\ pc' = "input"
  /\ UNCHANGED quant /\ UNCHANGED << now, termSize, termMode, old_settings, tty_in, stdin_buf, resized,
                  args, PIL_AVAILABLE, vx1, vy1, planet_radius_cells, sat_radius,
                  use_png_planet, use_png_sat, planet_sprite, sat_frames, sat_h, sat_w,
                  debug, last_key_times, key, thrusting, canvas, out, nresize, nkeys >>

\* the radii after a resize
resize_planet_radius(a, old, h, w) ==
  IF ~Truthy(a.planet_size) THEN auto_planet_radius(h, w) ELSE old

resize_sat_radius(a, old, h, w) ==
  IF ~Truthy(a.sat_size) THEN auto_sat_radius(h, w) ELSE old

\* the planet sprite after a resize: reloaded when it is PNG-backed and the
\* file is there, generated otherwise
resize_planet_sprite(use_png, a, pil, file, radius, old) ==
  IF use_png /\ a.planet_png /\ file # "missing" /\ pil
  THEN LET tmp == load_png_sprite(pil, file = "ok", radius * 2 + 1, "planet_png")
       IN  IF tmp # NoSprite THEN tmp ELSE old
  ELSE procedural_planet(radius)

resize_sat_frames(use_png, a, pil, file, radius, old) ==
  IF use_png /\ a.sat_png /\ file # "missing" /\ pil
  THEN LET tmp == load_png_sprite(pil, file = "ok", radius * 2 + 1, "sat_png")
       IN  IF tmp # NoSprite THEN << tmp, tmp >> ELSE old
  ELSE procedural_sat_frames(radius)

ResizeSprites ==
  /\ pc = "resize_sprites"
  /\ \E pfile \in FileStates, sfile \in FileStates :
       LET pr == resize_planet_radius(args, planet_radius_cells, sh, sw)
           sr == resize_sat_radius(args, sat_radius, sh, sw)
           ptry == use_png_planet /\ args.planet_png /\ pfile # "missing" /\ PIL_AVAILABLE
           stry == use_png_sat /\ args.sat_png /\ sfile # "missing" /\ PIL_AVAILABLE
           frames == resize_sat_frames(use_png_sat, args, PIL_AVAILABLE, sfile, sr, sat_frames)
       IN  /\ (use_png_planet /\ args.planet_png /\ PIL_AVAILABLE) \/ pfile = "missing"
           /\ (use_png_sat /\ args.sat_png /\ PIL_AVAILABLE) \/ sfile = "missing"
           /\ planet_radius_cells' = pr
           /\ sat_radius' = sr
           /\ planet_sprite' = resize_planet_sprite(use_png_planet, args, PIL_AVAILABLE,
                                                    pfile, pr, planet_sprite)
           /\ sat_frames' = frames
           /\ sat_h' = Len(frames[1]) /\ sat_w' = Len(frames[1][1])
           /\ hist' = [hist EXCEPT
                 !.planet_load = IF ptry THEN (IF pfile = "ok" THEN "ok" ELSE "failed") ELSE "none",
                 !.sat_load = IF stry THEN (IF sfile = "ok" THEN "ok" ELSE "failed") ELSE "none"]
  /\ pc' = "resize_clear"
  /\ UNCHANGED quant /\ UNCHANGED << frame, now, termSize, termMode, old_settings, tty_in, stdin_buf,
                  resized, args, PIL_AVAILABLE, sh, sw, y0, x0, x1, y1, vx1, vy1,
                  use_png_planet, use_png_sat, debug, last_key_times, key, thrusting,
                  canvas, out, nresize, nkeys >>

\* resized = False
ResizeClear ==
  /\ pc = "resize_clear"
  /\ resized' = FALSE
  /\ pc' = "input"
  /\ hist' = [hist EXCEPT !.planet_load = "none", !.sat_load = "none"]
  /\ UNCHANGED quant /\ UNCHANGED << frame, now, termSize, termMode, old_settings, tty_in, stdin_buf, args,
                  PIL_AVAILABLE, sim, debug, last_key_times, key, thrusting, canvas,
                  out, nresize, nkeys >>

\* ------------------------------------------------------------------------
\* Leaving the loop
\* ------------------------------------------------------------------------
\* Control leaves the while loop for the finally block (break, or an exception
\* unwinding main): the finally block reads fd and old_settings only, so every
\* other local of main() and every module global is dead from here on and is
\* dropped from the state.
Unwind(cause) ==
  /\ pc' = "finally"
  /\ frame' = 0 /\ now' = 0
  /\ tty_in' = << >> /\ stdin_buf' = << >>
  /\ resized' = FALSE
  /\ sh' = 0 /\ sw' = 0 /\ y0' = 0 /\ x0' = 0
  /\ x1' = 0 /\ y1' = 0 /\ vx1' = 0 /\ vy1' = 0
  /\ planet_radius_cells' = 0 /\ sat_radius' = 0
  /\ use_png_planet' = FALSE /\ use_png_sat' = FALSE
  /\ planet_sprite' = NoSprite /\ sat_frames' = << >>
  /\ sat_h' = 0 /\ sat_w' = 0
  /\ debug' = FALSE
  /\ last_key_times' = [k \in TrackedKeys |-> 0]
  /\ thrusting' = FALSE
  /\ canvas' = << >> /\ out' = << >>
  /\ nresize' = 0 /\ nkeys' = 0
  /\ hist' = [ start_size |-> << >>, planet_load |-> "none", sat_load |-> "none",
               read |-> "none", pre_wrap |-> << >>, frame_index |-> 0,
               q_ahead |-> -1, q_frames |-> 0, exit |-> cause ]
  /\ UNCHANGED quant /\ UNCHANGED << termSize, termMode, old_settings, args, PIL_AVAILABLE >>

\* ------------------------------------------------------------------------
\* Input
\* ------------------------------------------------------------------------
\* str.lower() on the characters of KeyChars
Lower(c) ==
  IF c = "Q" THEN "q" ELSE IF c = "I" THEN "i" ELSE IF c = "W" THEN "w"
  ELSE IF c = "A" THEN "a" ELSE IF c = "S" THEN "s" ELSE IF c = "D" THEN "d" ELSE c

\* a reader that stamps the pending key before the read and so also when the
\* read raises
read_key_stamped_before_read(q, buf, err, t, times) ==
  IF q = << >>
  THEN [c |-> None, times |-> times, tty_in |-> q, stdin_buf |-> buf, status |-> "nokey"]
  ELSE LET c == IF buf # << >> THEN Head(buf) ELSE Head(q)
           kc == Lower(c)
           stamped == IF kc \in TrackedKeys THEN [times EXCEPT ![kc] = t] ELSE times
       IN  IF buf = << >> /\ err
           THEN [c |-> None, times |-> stamped, tty_in |-> q, stdin_buf |-> buf,
                 status |-> "err"]
           ELSE [c |-> c, times |-> stamped,
                 tty_in |-> IF buf # << >> THEN q ELSE << >>,
                 stdin_buf |-> IF buf # << >> THEN Tail(buf) ELSE Tail(q),
                 status |-> "char"]

\* read_key_nonblocking_record. select() looks at the kernel queue q only;
\* sys.stdin.read(1) returns a character sys.stdin already holds in buf, and
\* otherwise reads everything the kernel queue has in one read() and keeps
\* what follows the first character in buf. err: that read() raises OSError.
read_key_nonblocking_record(q, buf, err, t, times) ==
  IF q = << >>
  THEN [c |-> None, times |-> times, tty_in |-> q, stdin_buf |-> buf, status |-> "nokey"]
  ELSE IF buf = << >> /\ err
  THEN [c |-> None, times |-> times, tty_in |-> q, stdin_buf |-> buf, status |-> "err"]
  ELSE LET c == IF buf # << >> THEN Head(buf) ELSE Head(q)
           kc == Lower(c)
       IN  [ c |-> c,
             times |-> IF kc \in TrackedKeys THEN [times EXCEPT ![kc] = t] ELSE times,
             tty_in |-> IF buf # << >> THEN q ELSE << >>,
             stdin_buf |-> IF buf # << >> THEN Tail(buf) ELSE Tail(q),
             status |-> "char" ]

\* a key handler that ignores the toggle key
handle_key_toggle_ignored(c, dbg) ==
  [ quit |-> c # None /\ Lower(c) = "q", debug |-> dbg ]

\* if key: k = key.lower(); q breaks, i toggles the HUD
handle_key(c, dbg) ==
  [ quit |-> c # None /\ Lower(c) = "q",
    debug |-> IF c # None /\ Lower(c) = "i" THEN ~dbg ELSE dbg ]

Input ==
  /\ pc = "input"
  /\ \E err \in BOOLEAN :
       LET rd == read_key_nonblocking_record(tty_in, stdin_buf, err, now, last_key_times)
           hk == handle_key(rd.c, debug)
       IN  /\ err => (tty_in # << >> /\ stdin_buf = << >>)
           /\ key' = rd.c
           /\ IF hk.quit
              THEN Unwind("quit")
              ELSE /\ last_key_times' = rd.times
                   /\ tty_in' = rd.tty_in
                   /\ stdin_buf' = rd.stdin_buf
                   /\ debug' = hk.debug
                   /\ pc' = "physics"
                   /\ hist' = [hist EXCEPT
                         !.read = rd.status,
                         !.q_frames = IF hist.q_ahead >= 0 /\ rd.status # "err"
                                      THEN @ + 1 ELSE @]
                   /\ UNCHANGED quant /\ UNCHANGED << frame, now, termSize, termMode, old_settings, resized,
                                   args, PIL_AVAILABLE, sim, thrusting, canvas, out,
                                   nresize, nkeys >>

\* ------------------------------------------------------------------------
\* Physics
\* ------------------------------------------------------------------------
\* a key that was ever seen stays held
key_recent_never_expires(k, times, t) == times[k] > 0

key_recent(k, times, t) == times[k] >= t - HOLD_TIMEOUT

\* a tick that forgets the damping
damp_none(v) == v

\* v *= DE
damp(v) == RoundDiv(v * DE, 100)

\* a tick whose centering force pulls forward a body that is exactly on the anchor
physics_pull_at_anchor(px, py, pvx, pvy, ax, ay, h, w, times, t) ==
  LET tw == key_recent("w", times, t)
      ts == key_recent("s", times, t)
      ta == key_recent("a", times, t)
      td == key_recent("d", times, t)
      vy_t == pvy - (IF tw THEN TH ELSE 0) + (IF ts THEN TH ELSE 0)
      vx_t == pvx - (IF ta THEN TH ELSE 0) + (IF td THEN TH ELSE 0)
      vx_g == IF px <= ax * Scale THEN vx_t + AC ELSE vx_t - AC
      vy_g == IF py <= ay * Scale THEN vy_t + AC ELSE vy_t - AC
      nx == px + vx_g
      ny == py + vy_g
      w1 == IF w <= 0 THEN 1 ELSE w
      h1 == IF h <= 0 THEN 1 ELSE h
  IN  [ x1 |-> FMod(nx, w1), y1 |-> FMod(ny, h1),
        vx1 |-> damp(vx_g), vy1 |-> damp(vy_g),
        sw |-> w1, sh |-> h1,
        thrusting |-> tw \/ ts \/ ta \/ td,
        pre_wrap |-> << nx, ny >> ]

\* a tick that takes the first held key only, as an elif chain would
physics_first_key_only(px, py, pvx, pvy, ax, ay, h, w, times, t) ==
  LET tw == key_recent("w", times, t)
      ts == ~tw /\ key_recent("s", times, t)
      ta == ~tw /\ ~ts /\ key_recent("a", times, t)
      td == ~tw /\ ~ts /\ ~ta /\ key_recent("d", times, t)
      vy_t == pvy - (IF tw THEN TH ELSE 0) + (IF ts THEN TH ELSE 0)
      vx_t == pvx - (IF ta THEN TH ELSE 0) + (IF td THEN TH ELSE 0)
      vx_g == IF px < ax * Scale THEN vx_t + AC ELSE vx_t - AC
      vy_g == IF py < ay * Scale THEN vy_t + AC ELSE vy_t - AC
      nx == px + vx_g
      ny == py + vy_g
      w1 == IF w <= 0 THEN 1 ELSE w
      h1 == IF h <= 0 THEN 1 ELSE h
  IN  [ x1 |-> FMod(nx, w1), y1 |-> FMod(ny, h1),
        vx1 |-> damp(vx_g), vy1 |-> damp(vy_g),
        sw |-> w1, sh |-> h1,
        thrusting |-> tw \/ ts \/ ta \/ td,
        pre_wrap |-> << nx, ny >> ]

\* one tick: thrust, centering force, integrate, damp, wrap
physics(px, py, pvx, pvy, ax, ay, h, w, times, t) ==
  LET tw == key_recent("w", times, t)
      ts == key_recent("s", times, t)
      ta == key_recent("a", times, t)
      td == key_recent("d", times, t)
      vy_t == pvy - (IF tw THEN TH ELSE 0) + (IF ts THEN TH ELSE 0)
      vx_t == pvx - (IF ta THEN TH ELSE 0) + (IF td THEN TH ELSE 0)
      vx_g == IF px < ax * Scale THEN vx_t + AC ELSE vx_t - AC
      vy_g == IF py < ay * Scale THEN vy_t + AC ELSE vy_t - AC
      nx == px + vx_g
      ny == py + vy_g
      w1 == IF w <= 0 THEN 1 ELSE w
      h1 == IF h <= 0 THEN 1 ELSE h
  IN  [ x1 |-> FMod(nx, w1), y1 |-> FMod(ny, h1),
        vx1 |-> damp(vx_g), vy1 |-> damp(vy_g),
        sw |-> w1, sh |-> h1,
        thrusting |-> tw \/ ts \/ ta \/ td,
        pre_wrap |-> << nx, ny >> ]

Physics ==
  /\ pc = "physics"
  /\ LET ph == physics(x1, y1, vx1, vy1, x0, y0, sh, sw, last_key_times, now)
     IN  /\ x1' = ph.x1 /\ y1' = ph.y1 /\ vx1' = ph.vx1 /\ vy1' = ph.vy1
         /\ sw' = ph.sw /\ sh' = ph.sh
         /\ thrusting' = ph.thrusting
         /\ hist' = [hist EXCEPT !.pre_wrap = ph.pre_wrap, !.read = "none"]
  /\ key' = None
  /\ pc' = "compose"
  /\ UNCHANGED quant /\ UNCHANGED << frame, now, termSize, termMode, old_settings, tty_in, stdin_buf,
                  resized, args, PIL_AVAILABLE, y0, x0, planet_radius_cells, sat_radius,
                  use_png_planet, use_png_sat, planet_sprite, sat_frames, sat_h, sat_w,
                  debug, last_key_times, canvas, out, nresize, nkeys >>

\* ------------------------------------------------------------------------
\* Compositor
\* ------------------------------------------------------------------------
\* one terminal cell painted with a background colour
bg_color_block(color) == << "bg", color >>
\* one terminal cell showing a character
fg_on_bg_char(fg, bg, ch) == << "fg", fg, bg, ch >>

\* the characters of HUD line hi, all shown as the tag of the line
hud_char(hi) == << "hud0", "hud1", "hud2", "hud3" >>[hi + 1]

\* without the tests for negative coordinates a negative list index counts
\* from the end: the row above the canvas lands on its last row
place_sprite_on_canvas_wrapping(cv, sprite, top, left) ==
  LET h == Len(sprite)
      w == IF h > 0 THEN Len(sprite[1]) ELSE 0
      rows == Len(cv)
  IN  [ r \in 1 .. rows |->
        [ c \in 1 .. Len(cv[r]) |->
            LET cols == Len(cv[r])
                sy == (r - 1) - top
                sx == (c - 1) - left
                wy == IF sy >= 0 /\ sy < h THEN sy ELSE sy - rows
                wx == IF sx >= 0 /\ sx < w THEN sx ELSE sx - cols
            IN  IF wy >= 0 /\ wy < h /\ wx >= 0 /\ wx < w /\ sprite[wy + 1][wx + 1] # None
                THEN bg_color_block(sprite[wy + 1][wx + 1])
                ELSE cv[r][c] ] ]

place_sprite_on_canvas(cv, sprite, top, left) ==
  LET h == Len(sprite)
      w == IF h > 0 THEN Len(sprite[1]) ELSE 0
  IN  [ r \in 1 .. Len(cv) |->
        [ c \in 1 .. Len(cv[r]) |->
            LET sy == (r - 1) - top
                sx == (c - 1) - left
            IN  IF sy >= 0 /\ sy < h /\ sx >= 0 /\ sx < w /\ sprite[sy + 1][sx + 1] # None
                THEN bg_color_block(sprite[sy + 1][sx + 1])
                ELSE cv[r][c] ] ]

\* canvas = [[bg_cell] * sw] * sh
build_canvas(h, w) == [ r \in 1 .. h |-> [ c \in 1 .. w |-> bg_color_block("bg_rgb") ] ]

\* the control hint on the last row, cut at the right edge
draw_controls(cv, w) ==
  LET n == IF Len(controls) >= w THEN w ELSE Len(controls)
  IN  [ cv EXCEPT ![Len(cv)] =
          [ c \in 1 .. Len(cv[Len(cv)]) |->
              IF c <= n THEN fg_on_bg_char("controls_fg", "bg_rgb", controls[c])
              ELSE cv[Len(cv)][c] ] ]

draw_planet(cv, sprite, ay, ax) ==
  LET pr == Len(sprite)
  IN  place_sprite_on_canvas(cv, sprite, ay - pr \div 2, ax - pr \div 2)

draw_satellite(cv, sprite, py, px, h, w) ==
  place_sprite_on_canvas(cv, sprite, IntRound(py) - h \div 2, IntRound(px) - w \div 2)

\* the HUD: line hi on row hi while hi < sh - 2, cut at the right edge
draw_hud(cv, h, w) ==
  [ r \in 1 .. Len(cv) |->
    [ c \in 1 .. Len(cv[r]) |->
        IF r - 1 < Len(hud_lines) /\ r - 1 < h - 2 /\ c - 1 < hud_lines[r] /\ c - 1 < w
        THEN fg_on_bg_char("hud_fg", "bg_rgb", hud_char(r - 1))
        ELSE cv[r][c] ] ]

\* a compositor that blits the satellite before the planet
compose_satellite_first(h, w, psprite, ay, ax, ssprite, py, px, shh, sww, dbg) ==
  LET c0 == build_canvas(h, w)
      c1 == draw_controls(c0, w)
      c2 == draw_satellite(c1, ssprite, py, px, shh, sww)
      c3 == draw_planet(c2, psprite, ay, ax)
  IN  IF dbg THEN draw_hud(c3, h, w) ELSE c3

\* the canvas of one frame, in the order main() writes it
compose(h, w, psprite, ay, ax, ssprite, py, px, shh, sww, dbg) ==
  LET c0 == build_canvas(h, w)
      c1 == draw_controls(c0, w)
      c2 == draw_planet(c1, psprite, ay, ax)
      c3 == draw_satellite(c2, ssprite, py, px, shh, sww)
  IN  IF dbg THEN draw_hud(c3, h, w) ELSE c3

Compose ==
  /\ pc = "compose"
  /\ \E flicker \in BOOLEAN :
       LET frame_index == IF thrusting /\ ~flicker THEN 1 ELSE 0
       IN  /\ flicker => thrusting
           /\ canvas' = compose(sh, sw, planet_sprite, y0, x0, sat_frames[frame_index + 1],
                                y1, x1, sat_h, sat_w, debug)
           /\ hist' = [hist EXCEPT !.frame_index = frame_index, !.pre_wrap = << >>]
  /\ pc' = "write"
  /\ UNCHANGED quant /\ UNCHANGED << frame, now, termSize, termMode, old_settings, tty_in, stdin_buf,
                  resized, args, PIL_AVAILABLE, sim, debug, last_key_times, key,
                  thrusting, out, nresize, nkeys >>

\* os.write(1, out): the whole frame in one write; `out` keeps its size
Write ==
  /\ pc = "write"
  /\ out' = << Len(canvas), Len(canvas[1]) >>
  /\ canvas' = << >>
  /\ hist' = [hist EXCEPT !.start_size = << >>, !.frame_index = 0]
  /\ pc' = "sleep"
  /\ UNCHANGED quant /\ UNCHANGED << frame, now, termSize, termMode, old_settings, tty_in, stdin_buf,
                  resized, args, PIL_AVAILABLE, sim, debug, last_key_times, key,
                  thrusting, nresize, nkeys >>

\* sleep what is left of the frame period: the next frame starts one period on
Sleep ==
  /\ pc = "sleep"
  /\ now' = now + FRAME_MS
  /\ pc' = "frame_start"
  /\ UNCHANGED quant /\ UNCHANGED << frame, termSize, termMode, old_settings, tty_in, stdin_buf, resized,
                  args, PIL_AVAILABLE, sim, debug, last_key_times, key, thrusting,
                  canvas, out, nresize, nkeys, hist >>

\* ------------------------------------------------------------------------
\* Leaving the session
\* ------------------------------------------------------------------------
\* KeyboardInterrupt, or any exception, raised at a step of the loop
Interrupt ==
  /\ pc \in LoopPCs
  /\ key' = None
  /\ Unwind("interrupt")

\* an exit path that leaves the terminal as it is
restore_terminal_skipped(mode, saved) == mode

\* termios.tcsetattr(fd, TCSADRAIN, old_settings)
restore_terminal(mode, saved) == saved

\* finally: restore the terminal, query the size, show the cursor
Finally ==
  /\ pc = "finally"
  /\ termMode' = restore_terminal(termMode, old_settings)
  /\ sh' = termSize[1] /\ sw' = termSize[2]
  /\ pc' = "exited"
  /\ UNCHANGED quant /\ UNCHANGED << frame, now, termSize, old_settings, tty_in, stdin_buf, resized, args,
                  PIL_AVAILABLE, y0, x0, x1, y1, vx1, vy1, planet_radius_cells,
                  sat_radius, use_png_planet, use_png_sat, planet_sprite, sat_frames,
                  sat_h, sat_w, debug, last_key_times, key, thrusting, canvas, out,
                  nresize, nkeys, hist >>

Next ==
  \/ \E ts \in TermSizes : sigwinch(ts)
  \/ \E c \in KeyChars : KeyPress(c)
  \/ FrameStart
  \/ ResizeSprites
  \/ ResizeClear
  \/ Input
  \/ Physics
  \/ Compose
  \/ Write
  \/ Sleep
  \/ Interrupt
  \/ Finally

Spec == Init /\ [][Next]_vars

\* ========================================================================
\* Properties
\* ========================================================================
InLoop == pc \in LoopPCs

\* C1: no resize notification is lost: whenever the flag is clear, the size the
\* loop has stored is the size the terminal has.
C1_NoResizeLost ==
  (InLoop /\ ~resized) => (sh = termSize[1] /\ sw = termSize[2])

\* ---- what covers a canvas cell (row r, column c, both from 1) -------------
HintCovers(r, c) == r = sh /\ c <= Min(Len(controls), sw)

HudCovers(r, c) ==
  debug /\ r <= Len(hud_lines) /\ r - 1 < sh - 2 /\ c <= Min(hud_lines[r], sw)

SpritePixel(sprite, top, left, r, c) ==
  LET sy == (r - 1) - top
      sx == (c - 1) - left
  IN  IF sy >= 0 /\ sy < Len(sprite) /\ sx >= 0 /\ sx < Len(sprite[1])
      THEN sprite[sy + 1][sx + 1] ELSE None

PlanetPixel(r, c) ==
  SpritePixel(planet_sprite, y0 - Len(planet_sprite) \div 2,
              x0 - Len(planet_sprite) \div 2, r, c)

SatPixel(r, c) ==
  SpritePixel(sat_frames[hist.frame_index + 1], IntRound(y1) - sat_h \div 2,
              IntRound(x1) - sat_w \div 2, r, c)

HintCell(c) == fg_on_bg_char("controls_fg", "bg_rgb", controls[c])
HudCell(r) == fg_on_bg_char("hud_fg", "bg_rgb", hud_char(r - 1))

CanvasCells == { rc \in (1 .. sh) \X (1 .. sw) : TRUE }

\* C2 as claimed: the canvas is written in the order background, planet,
\* satellite, control hint, HUD, so the hint wins over both sprites.
C2_HintOverSprites ==
  pc = "write" =>
    \A rc \in CanvasCells :
      canvas[rc[1]][rc[2]] =
        IF HudCovers(rc[1], rc[2]) THEN HudCell(rc[1])
        ELSE IF HintCovers(rc[1], rc[2]) THEN HintCell(rc[2])
        ELSE IF SatPixel(rc[1], rc[2]) # None THEN bg_color_block(SatPixel(rc[1], rc[2]))
        ELSE IF PlanetPixel(rc[1], rc[2]) # None THEN bg_color_block(PlanetPixel(rc[1], rc[2]))
        ELSE bg_color_block("bg_rgb")

\* C2 amended: the canvas is written in the order background, control hint,
\* planet, satellite, HUD: the satellite wins over the planet, both sprites win
\* over the hint, and the HUD, when enabled, wins over everything.
C2_DrawOrder ==
  pc = "write" =>
    \A rc \in CanvasCells :
      canvas[rc[1]][rc[2]] =
        IF HudCovers(rc[1], rc[2]) THEN HudCell(rc[1])
        ELSE IF SatPixel(rc[1], rc[2]) # None THEN bg_color_block(SatPixel(rc[1], rc[2]))
        ELSE IF PlanetPixel(rc[1], rc[2]) # None THEN bg_color_block(PlanetPixel(rc[1], rc[2]))
        ELSE IF HintCovers(rc[1], rc[2]) THEN HintCell(rc[2])
        ELSE bg_color_block("bg_rgb")

\* a frame about to be written in which every overlap of the claim occurs
C2_Witness ==
  /\ pc = "write"
  /\ \E rc \in CanvasCells : SatPixel(rc[1], rc[2]) # None /\ PlanetPixel(rc[1], rc[2]) # None
                             /\ ~HudCovers(rc[1], rc[2])
  /\ \E rc \in CanvasCells : HintCovers(rc[1], rc[2]) /\ SatPixel(rc[1], rc[2]) # None
  /\ \E rc \in CanvasCells : HintCovers(rc[1], rc[2]) /\ PlanetPixel(rc[1], rc[2]) # None
                             /\ SatPixel(rc[1], rc[2]) = None
  /\ \E rc \in CanvasCells : HudCovers(rc[1], rc[2]) /\ SatPixel(rc[1], rc[2]) # None

\* C3: at every composite the planet sprite has side 2*planet_radius_cells+1
\* and both satellite frames have side 2*sat_radius+1.
C3_SpritesFitRadii ==
  pc = "compose" =>
    /\ Len(planet_sprite) = 2 * planet_radius_cells + 1
    /\ \A i \in 1 .. 2 : Len(sat_frames[i]) = 2 * sat_radius + 1

\* C4: the canvas that is built and written has the rows and columns of the
\* terminal size that was live when the frame started.
C4_CanvasIsLiveSize ==
  pc = "write" =>
    /\ Len(canvas) = hist.start_size[1]
    /\ \A r \in 1 .. Len(canvas) : Len(canvas[r]) = hist.start_size[2]

\* C5: on every exit path the saved terminal attributes are restored: no
\* terminated state is still in cbreak mode.
C5_TerminalRestored ==
  pc = "exited" => (termMode = old_settings /\ termMode # "cbreak")

\* the session ended by an interrupt
C5_Witness == pc = "exited" /\ hist.exit = "interrupt"

\* C6: a quit key typed behind k pending characters is sampled after at most k
\* further frames (frames whose read fails are not counted).
C6_QuitWithinKFrames ==
  hist.q_ahead >= 0 => hist.q_frames <= hist.q_ahead

ThrustTimes(times) == [k \in {"w", "a", "s", "d"} |-> times[k]]

\* C7: the input step that samples the toggle key flips the HUD flag, changes
\* nothing of the simulation state nor of the thrust keys' last-seen times and
\* goes on to the physics step as a frame without a key does; and the step that
\* reads the flag, the composite, leaves the simulation state alone.
C7_ToggleLeavesSimulation ==
  /\ [][ (pc = "input" /\ pc' # "input" /\ key' # None /\ Lower(key') = "i")
          => /\ debug' = ~debug
             /\ sim' = sim
             /\ ThrustTimes(last_key_times') = ThrustTimes(last_key_times)
             /\ pc' = "physics" ]_vars
  /\ [][ (pc = "compose" /\ pc' = "write") => sim' = sim ]_vars

\* a frame that sampled the toggle key and is about to run its physics
C7_Witness ==
  pc = "physics" /\ key # None /\ Lower(key) = "i" /\ hist.read = "char"

\* C9: a read that fails with an I/O error leaves the frame as a frame without
\* a key: no last-seen time changes, the HUD flag is unchanged, nothing is
\* consumed, the loop goes on to the physics step.
C9_ReadErrorIsNoKey ==
  [][ (pc = "input" /\ pc' # "input" /\ hist'.read = "err")
       => /\ key' = None
          /\ last_key_times' = last_key_times
          /\ debug' = debug
          /\ sim' = sim
          /\ tty_in' = tty_in /\ stdin_buf' = stdin_buf
          /\ pc' = "physics" ]_vars

\* a frame whose read failed and is about to run its physics
C9_Witness == pc = "physics" /\ hist.read = "err"

\* C8: whenever a load yields no sprite, the procedural generator supplies the
\* sprite for the radius in force, and no sprite is ever missing.
C8_ProceduralOnFailedLoad ==
  InLoop =>
    /\ planet_sprite # NoSprite
    /\ \A i \in 1 .. 2 : sat_frames[i] # NoSprite
    /\ hist.planet_load = "failed" => planet_sprite = procedural_planet(planet_radius_cells)
    /\ hist.sat_load = "failed" => sat_frames = procedural_sat_frames(sat_radius)

InBounds == 0 <= x1 /\ x1 < sw * Scale /\ 0 <= y1 /\ y1 < sh * Scale

NoArgs == [planet_size |-> NoArg, sat_size |-> NoArg, planet_png |-> FALSE,
           sat_png |-> FALSE, debug |-> FALSE]

terminal == << termSize, termMode, old_settings, tty_in, stdin_buf, resized, args,
               PIL_AVAILABLE, nresize, nkeys >>
TerminalIdle(ts) ==
  /\ termSize = ts /\ termMode = "cbreak" /\ old_settings = "cooked"
  /\ tty_in = << >> /\ stdin_buf = << >> /\ resized = FALSE
  /\ args = NoArgs /\ PIL_AVAILABLE = FALSE /\ nresize = 0 /\ nkeys = 0

sprites == << planet_radius_cells, sat_radius, use_png_planet, use_png_sat,
              planet_sprite, sat_frames, sat_h, sat_w >>
SpritesIdle ==
  /\ planet_radius_cells = 0 /\ sat_radius = 0
  /\ use_png_planet = FALSE /\ use_png_sat = FALSE
  /\ planet_sprite = NoSprite /\ sat_frames = << >> /\ sat_h = 0 /\ sat_w = 0

body == << sh, sw, y0, x0, x1, y1, vx1, vy1, last_key_times, key, thrusting >>
BodyIdle ==
  /\ sh = 0 /\ sw = 0 /\ y0 = 0 /\ x0 = 0 /\ x1 = 0 /\ y1 = 0 /\ vx1 = 0 /\ vy1 = 0
  /\ last_key_times = [k \in TrackedKeys |-> 0] /\ key = None /\ thrusting = FALSE

screen == << canvas, out, debug >>
ScreenIdle == canvas = << >> /\ out = << >> /\ debug = FALSE

QuantIdle ==
  /\ MODE = "truecolor"
  /\ _bg_cache = << >> /\ _fg_on_bg_cache = << >>
  /\ _bg_cache16 = << >> /\ _fg_cache16 = << >>
  /\ call = << >> /\ ret = << >>

Abs(v) == IF v < 0 THEN -v ELSE v

\* ------------------------------------------------------------------------
\* The physics tick without input
\* ------------------------------------------------------------------------
\* ticks of a run without input
MaxTicks == 100

\* starts of a run without input: the body on the anchor with a velocity, and
\* the body 10 cells right of the anchor of an 80x24 terminal, at rest
FreeStarts ==
  { [h |-> 24, w |-> 80, x |-> 50, y |-> 12, vx |-> 0, vy |-> 0] }
  \cup { [h |-> ts[1], w |-> ts[2], x |-> ts[2] \div 2, y |-> ts[1] \div 2,
          vx |-> v[1], vy |-> v[2]] :
         ts \in { <<24, 80>>, <<32, 32>> },
         v \in { <<0, 0>>, <<Scale, 0>>, <<-3 * Scale, Scale \div 2>>,
                 <<Scale \div 5, -(Scale \div 5)>> } }

\* the swing of x around the anchor that a position continues or begins
swing_after(sw_, px, ax) ==
  LET side == IF px < ax * Scale THEN "left" ELSE "right"
      dist == Abs(px - ax * Scale)
  IN  IF sw_.side = side
      THEN [sw_ EXCEPT !.max = Max(@, dist)]
      ELSE [side |-> side, max |-> dist, prev |-> sw_.max, count |-> sw_.count + 1]

FreeInit ==
  \E st \in FreeStarts :
    /\ TerminalIdle(<<st.h, st.w>>) /\ SpritesIdle /\ ScreenIdle /\ QuantIdle
    /\ sh = st.h /\ sw = st.w /\ y0 = st.h \div 2 /\ x0 = st.w \div 2
    /\ x1 = st.x * Scale /\ y1 = st.y * Scale /\ vx1 = st.vx /\ vy1 = st.vy
    /\ last_key_times = [k \in TrackedKeys |-> 0] /\ key = None /\ thrusting = FALSE
    /\ pc = "physics" /\ frame = 0 /\ now = StartTime
    /\ hist = [ at_anchor |-> (st.x = st.w \div 2 /\ st.y = st.h \div 2),
                v0 |-> << st.vx, st.vy >>,
                decay |-> << Abs(st.vx), Abs(st.vy) >>,
                swing |-> [side |-> IF st.x < st.w \div 2 THEN "left" ELSE "right",
                           max |-> Abs(st.x - st.w \div 2) * Scale, prev |-> -1,
                           count |-> 0] ]

\* one iteration of the loop in which no key was ever seen: the physics of
\* the frame, then the next frame one period later
FreeTick ==
  /\ pc = "physics"
  /\ frame < MaxTicks
  /\ LET ph == physics(x1, y1, vx1, vy1, x0, y0, sh, sw, last_key_times, now)
     IN  /\ x1' = ph.x1 /\ y1' = ph.y1 /\ vx1' = ph.vx1 /\ vy1' = ph.vy1
         /\ sw' = ph.sw /\ sh' = ph.sh
         /\ thrusting' = ph.thrusting
         /\ hist' = [hist EXCEPT !.decay = << damp(@[1]), damp(@[2]) >>,
                                 !.swing = swing_after(@, ph.x1, x0)]
  /\ frame' = frame + 1
  /\ now' = now + FRAME_MS
  /\ UNCHANGED << pc, y0, x0, last_key_times, key, terminal, sprites, screen, quant >>

FreeNext == FreeTick

SpecFree == FreeInit /\ [][FreeNext]_vars

\* the centering acceleration of an axis: towards the anchor, and backwards
\* when the position is the anchor's
centering(p, a) == IF p < a * Scale THEN AC ELSE -AC

\* the speed one axis cannot exceed: v' = DE * (v +- AC) has the fixed point
\* AC * DE / (1 - DE); the last term is the rounding of the fixed-point model
speed_limit(v) == Max(Abs(v), (AC * DE) \div (100 - DE)) + 100 \div (2 * (100 - DE))

\* C11 as claimed: from the anchor and without thrust the speed after n ticks
\* is |v_0| * DE^n on each axis (up to the rounding of n ticks), and the
\* position stays in the play-field.
C11_GeometricDecay ==
  hist.at_anchor =>
    /\ Abs(Abs(vx1) - hist.decay[1]) <= frame
    /\ Abs(Abs(vy1) - hist.decay[2]) <= frame
    /\ InBounds

\* C11 amended: from the anchor and without thrust every tick adds the
\* centering acceleration (+AC below the anchor, -AC at or beyond it) and then
\* damps, v' = DE * (v +- AC); so the speed of an axis never exceeds
\* max(|v_0|, AC*DE/(1-DE)), and the position stays in the play-field.
C11_DampedCentering ==
  /\ [][ (hist.at_anchor /\ frame' = frame + 1)
          => /\ vx1' = RoundDiv((vx1 + centering(x1, x0)) * DE, 100)
             /\ vy1' = RoundDiv((vy1 + centering(y1, y0)) * DE, 100) ]_vars
  /\ [](hist.at_anchor =>
          /\ Abs(vx1) <= speed_limit(hist.v0[1])
          /\ Abs(vy1) <= speed_limit(hist.v0[2])
          /\ InBounds)

\* a run from the anchor with a velocity, some ticks on, whose speed is not
\* the geometric one
C11_Witness ==
  /\ hist.at_anchor /\ hist.v0[1] # 0 /\ frame >= 3
  /\ Abs(vx1) > hist.decay[1] + frame

\* C12: on an 80x24 terminal, from 10 cells right of the anchor at rest and
\* without input, x is in [0, 80) after every one of the 100 frames, the body
\* swings around the anchor, and no swing reaches farther from x = 40 than the
\* swing before it.
C12_BoundedOscillation ==
  ~hist.at_anchor =>
    /\ 0 <= x1 /\ x1 < 80 * Scale
    /\ hist.swing.prev >= 0 => hist.swing.max <= hist.swing.prev
    /\ frame >= MaxTicks => hist.swing.count >= 4

\* the 100th frame of that run, several swings in
C12_Witness ==
  ~hist.at_anchor /\ frame >= 100 /\ hist.swing.count >= 4 /\ x0 = 40 /\ sw = 80

\* ------------------------------------------------------------------------
\* Colour quantization
\* ------------------------------------------------------------------------
\* int(round(p / q)) for p >= 0, q > 0: Python rounds a half to the even side
round_half_even(p, q) ==
  LET f == p \div q
      r == p % q
  IN  IF 2 * r < q THEN f
      ELSE IF 2 * r > q THEN f + 1
      ELSE IF f % 2 = 0 THEN f ELSE f + 1

clamp255(v) == Max(0, Min(255, v))

sqdist(r, g, b, pr, pg, pb) ==
  (r - pr) * (r - pr) + (g - pg) * (g - pg) + (b - pb) * (b - pb)

\* to_index and from_index of rgb_to_ansi256
to_index(v) == round_half_even(v * 5, 255)
from_index(i) == IF i = 0 THEN 0 ELSE 55 + 40 * i

\* a code that prefers the gray ramp when both projections are equally far
rgb_to_ansi256_gray_on_tie(r0, g0, b0) ==
  LET r == clamp255(r0)
      g == clamp255(g0)
      b == clamp255(b0)
      ri == to_index(r)
      gi == to_index(g)
      bi == to_index(b)
      gray_level == round_half_even((r + g + b) * 23, 3 * 255)
      gray_val == 8 + gray_level * 10
      dc == sqdist(r, g, b, from_index(ri), from_index(gi), from_index(bi))
      dg == sqdist(r, g, b, gray_val, gray_val, gray_val)
  IN  IF dc < dg THEN 16 + 36 * ri + 6 * gi + bi ELSE 232 + gray_level

rgb_to_ansi256(r0, g0, b0) ==
  LET r == clamp255(r0)
      g == clamp255(g0)
      b == clamp255(b0)
      ri == to_index(r)
      gi == to_index(g)
      bi == to_index(b)
      cube_code == 16 + 36 * ri + 6 * gi + bi
      gray_level == round_half_even((r + g + b) * 23, 3 * 255)
      gray_val == 8 + gray_level * 10
      dc == sqdist(r, g, b, from_index(ri), from_index(gi), from_index(bi))
      dg == sqdist(r, g, b, gray_val, gray_val, gray_val)
  IN  IF dc <= dg THEN cube_code ELSE 232 + gray_level

\* the palette of the 16-colour mode: colour, foreground code, background code
ANSI16 ==
  << << <<0, 0, 0>>, 30, 40 >>,        << <<128, 0, 0>>, 31, 41 >>,
     << <<0, 128, 0>>, 32, 42 >>,      << <<128, 128, 0>>, 33, 43 >>,
     << <<0, 0, 128>>, 34, 44 >>,      << <<128, 0, 128>>, 35, 45 >>,
     << <<0, 128, 128>>, 36, 46 >>,    << <<192, 192, 192>>, 37, 47 >>,
     << <<128, 128, 128>>, 90, 100 >>, << <<255, 0, 0>>, 91, 101 >>,
     << <<0, 255, 0>>, 92, 102 >>,     << <<255, 255, 0>>, 93, 103 >>,
     << <<0, 0, 255>>, 94, 104 >>,     << <<255, 0, 255>>, 95, 105 >>,
     << <<0, 255, 255>>, 96, 106 >>,   << <<255, 255, 255>>, 97, 107 >> >>

\* the loop of nearest_ansi16_code from entry i on; best_d < 0 is None
RECURSIVE scan_ansi16_last(_, _, _, _)
scan_ansi16_last(rgb, i, best, best_d) ==
  IF i > Len(ANSI16) THEN best
  ELSE LET acol == ANSI16[i][1]
           d == sqdist(rgb[1], rgb[2], rgb[3], acol[1], acol[2], acol[3])
       IN  IF best_d < 0 \/ d <= best_d
           THEN scan_ansi16_last(rgb, i + 1, << ANSI16[i][2], ANSI16[i][3] >>, d)
           ELSE scan_ansi16_last(rgb, i + 1, best, best_d)

RECURSIVE scan_ansi16(_, _, _, _)
scan_ansi16(rgb, i, best, best_d) ==
  IF i > Len(ANSI16) THEN best
  ELSE LET acol == ANSI16[i][1]
           d == sqdist(rgb[1], rgb[2], rgb[3], acol[1], acol[2], acol[3])
       IN  IF best_d < 0 \/ d < best_d
           THEN scan_ansi16(rgb, i + 1, << ANSI16[i][2], ANSI16[i][3] >>, d)
           ELSE scan_ansi16(rgb, i + 1, best, best_d)

nearest_ansi16_code(rgb) == scan_ansi16(rgb, 1, << >>, -1)

\* channel values of the colours quantized: the ends, the values next to the
\* cube's and the ramp's rounding steps, and values midway between entries
Channels == {0, 4, 17, 25, 26, 40, 64, 76, 77, 95, 105, 127, 128, 135, 191, 192, 215, 255}
Colors == Channels \X Channels \X Channels

\* the colour to quantize is drawn at the start; each run makes one call
QuantizeInit ==
  \E c \in Colors :
    /\ TerminalIdle(<<24, 80>>) /\ SpritesIdle /\ BodyIdle /\ ScreenIdle
    /\ MODE = "truecolor"
    /\ _bg_cache = << >> /\ _fg_on_bg_cache = << >>
    /\ _bg_cache16 = << >> /\ _fg_cache16 = << >>
    /\ call = << "none", c >> /\ ret = << >>
    /\ pc = "call" /\ frame = 0 /\ now = StartTime
    /\ hist = << >>

Call_rgb_to_ansi256 ==
  /\ pc = "call"
  /\ call' = << "rgb_to_ansi256", call[2] >>
  /\ ret' = << rgb_to_ansi256(call[2][1], call[2][2], call[2][3]) >>
  /\ pc' = "returned"
  /\ UNCHANGED << frame, now, hist, terminal, sprites, body, screen, MODE,
                  _bg_cache, _fg_on_bg_cache, _bg_cache16, _fg_cache16 >>

Call_nearest_ansi16_code ==
  /\ pc = "call"
  /\ call' = << "nearest_ansi16_code", call[2] >>
  /\ ret' = nearest_ansi16_code(call[2])
  /\ pc' = "returned"
  /\ UNCHANGED << frame, now, hist, terminal, sprites, body, screen, MODE,
                  _bg_cache, _fg_on_bg_cache, _bg_cache16, _fg_cache16 >>

QuantizeNext ==
  \/ Call_rgb_to_ansi256
  \/ Call_nearest_ansi16_code

SpecQuantize == QuantizeInit /\ [][QuantizeNext]_vars

Called(f) == call # << >> /\ call[1] = f

\* the two projections of a colour as the claim words them: the nearest of
\* the six cube indices per channel, the nearest of the 24 gray levels
NearestIndex(v) == CHOOSE i \in 0 .. 5 : 2 * Abs(5 * v - 255 * i) <= 255
NearestLevel(r, g, b) == CHOOSE l \in 0 .. 23 : 2 * Abs(23 * (r + g + b) - 765 * l) <= 765
CubeValue(i) == IF i = 0 THEN 0 ELSE 55 + 40 * i
CubeDistance(c) ==
  sqdist(c[1], c[2], c[3], CubeValue(NearestIndex(c[1])), CubeValue(NearestIndex(c[2])),
         CubeValue(NearestIndex(c[3])))
GrayDistance(c) ==
  LET v == 8 + 10 * NearestLevel(c[1], c[2], c[3]) IN sqdist(c[1], c[2], c[3], v, v, v)

\* C13: rgb_to_ansi256 returns the cube code 16 + 36*ri + 6*gi + bi when the
\* cube projection is at most as far from the colour as the gray projection,
\* and the gray code 232 + level otherwise; so the projection it chose is never
\* farther than the one it rejected, and a tie goes to the cube.
C13_NearerProjection ==
  Called("rgb_to_ansi256") =>
    LET c == call[2]
        cube == 16 + 36 * NearestIndex(c[1]) + 6 * NearestIndex(c[2]) + NearestIndex(c[3])
        gray == 232 + NearestLevel(c[1], c[2], c[3])
    IN  /\ ret[1] \in {cube, gray}
        /\ ret[1] = cube => CubeDistance(c) <= GrayDistance(c)
        /\ ret[1] = gray => GrayDistance(c) < CubeDistance(c)

\* a colour as far from its cube projection as from its gray projection
C13_Witness ==
  /\ Called("rgb_to_ansi256")
  /\ CubeDistance(call[2]) = GrayDistance(call[2])
  /\ ret[1] < 232

\* squared distance of a colour to palette entry i
PaletteDistance(c, i) ==
  sqdist(c[1], c[2], c[3], ANSI16[i][1][1], ANSI16[i][1][2], ANSI16[i][1][3])

\* C14: nearest_ansi16_code returns the codes of the first palette entry
\* among those at minimal squared distance from the colour.
C14_FirstNearestEntry ==
  Called("nearest_ansi16_code") =>
    \E i \in 1 .. 16 :
      /\ ret = << ANSI16[i][2], ANSI16[i][3] >>
      /\ \A j \in 1 .. 16 : PaletteDistance(call[2], i) <= PaletteDistance(call[2], j)
      /\ \A j \in 1 .. i - 1 : PaletteDistance(call[2], i) < PaletteDistance(call[2], j)

\* a colour with two nearest palette entries
C14_Witness ==
  /\ Called("nearest_ansi16_code")
  /\ \E i \in 1 .. 16, j \in 1 .. 16 :
       /\ i < j
       /\ ret = << ANSI16[i][2], ANSI16[i][3] >>
       /\ PaletteDistance(call[2], i) = PaletteDistance(call[2], j)

\* ------------------------------------------------------------------------
\* The memoized cell encoders of the 256-colour and the 16-colour mode
\* ------------------------------------------------------------------------
\* calls of one run
MaxCalls == 3

\* An escape string is the tuple of its parts. An encoder takes the memo table
\* and returns the string together with the table it leaves behind.
bg_color_block_256(cache, r, g, b) ==
  LET k == << r, g, b >>
  IN  IF k \in DOMAIN cache THEN [esc |-> cache[k], cache |-> cache]
      ELSE LET esc == << "48;5", rgb_to_ansi256(r, g, b), " " >>
           IN  [esc |-> esc, cache |-> cache @@ (k :> esc)]

\* an encoder that leaves the character out of the memo key
fg_on_bg_char_256_key_without_char(cache, fg, bg, ch) ==
  LET k == << fg, bg, " " >>
  IN  IF k \in DOMAIN cache THEN [esc |-> cache[k], cache |-> cache]
      ELSE LET esc == << "48;5", rgb_to_ansi256(bg[1], bg[2], bg[3]),
                         "38;5", rgb_to_ansi256(fg[1], fg[2], fg[3]), ch >>
           IN  [esc |-> esc, cache |-> cache @@ (k :> esc)]

fg_on_bg_char_256(cache, fg, bg, ch) ==
  LET k == << fg, bg, ch >>
  IN  IF k \in DOMAIN cache THEN [esc |-> cache[k], cache |-> cache]
      ELSE LET esc == << "48;5", rgb_to_ansi256(bg[1], bg[2], bg[3]),
                         "38;5", rgb_to_ansi256(fg[1], fg[2], fg[3]), ch >>
           IN  [esc |-> esc, cache |-> cache @@ (k :> esc)]

bg_color_block_16(cache, r, g, b) ==
  LET k == << r, g, b >>
  IN  IF k \in DOMAIN cache THEN [esc |-> cache[k], cache |-> cache]
      ELSE LET esc == << "bg", nearest_ansi16_code(k)[2], " " >>
           IN  [esc |-> esc, cache |-> cache @@ (k :> esc)]

fg_on_bg_char_16(cache, fg, bg, ch) ==
  LET k == << fg, bg, ch >>
  IN  IF k \in DOMAIN cache THEN [esc |-> cache[k], cache |-> cache]
      ELSE LET esc == << "bg", nearest_ansi16_code(bg)[2],
                         "fg", nearest_ansi16_code(fg)[1], ch >>
           IN  [esc |-> esc, cache |-> cache @@ (k :> esc)]

\* colours and characters the compositor encodes: the default background and
\* the text colour, a blank and a letter
EncodedColors == { <<18, 8, 84>>, <<245, 245, 245>> }
EncodedChars == { " ", "W" }

EncodeInit ==
  \E m \in {"256", "16"} :
    /\ TerminalIdle(<<24, 80>>) /\ SpritesIdle /\ BodyIdle /\ ScreenIdle
    /\ MODE = m
    /\ _bg_cache = << >> /\ _fg_on_bg_cache = << >>
    /\ _bg_cache16 = << >> /\ _fg_cache16 = << >>
    /\ call = << >> /\ ret = << >>
    /\ pc = "encode" /\ frame = 0 /\ now = StartTime
    /\ hist = << >>

\* the strings returned so far, by call; the first return of a call is kept
returned_after(log, c, r) == IF c \in DOMAIN log THEN log ELSE log @@ (c :> r)

\* bg_color_block(r, g, b) of the mode in force
Call_bg_color_block(c) ==
  /\ pc = "encode"
  /\ frame < MaxCalls
  /\ frame' = frame + 1
  /\ call' = << "bg_color_block", c >>
  /\ IF MODE = "256"
     THEN LET res == bg_color_block_256(_bg_cache, c[1], c[2], c[3])
          IN  /\ ret' = res.esc /\ _bg_cache' = res.cache
              /\ hist' = returned_after(hist, call', res.esc)
              /\ UNCHANGED _bg_cache16
     ELSE LET res == bg_color_block_16(_bg_cache16, c[1], c[2], c[3])
          IN  /\ ret' = res.esc /\ _bg_cache16' = res.cache
              /\ hist' = returned_after(hist, call', res.esc)
              /\ UNCHANGED _bg_cache
  /\ UNCHANGED << pc, now, terminal, sprites, body, screen, MODE,
                  _fg_on_bg_cache, _fg_cache16 >>

\* fg_on_bg_char(fg, bg, ch) of the mode in force
Call_fg_on_bg_char(fg, bg, ch) ==
  /\ pc = "encode"
  /\ frame < MaxCalls
  /\ frame' = frame + 1
  /\ call' = << "fg_on_bg_char", << fg, bg, ch >> >>
  /\ IF MODE = "256"
     THEN LET res == fg_on_bg_char_256(_fg_on_bg_cache, fg, bg, ch)
          IN  /\ ret' = res.esc /\ _fg_on_bg_cache' = res.cache
              /\ hist' = returned_after(hist, call', res.esc)
              /\ UNCHANGED _fg_cache16
     ELSE LET res == fg_on_bg_char_16(_fg_cache16, fg, bg, ch)
          IN  /\ ret' = res.esc /\ _fg_cache16' = res.cache
              /\ hist' = returned_after(hist, call', res.esc)
              /\ UNCHANGED _fg_on_bg_cache
  /\ UNCHANGED << pc, now, terminal, sprites, body, screen, MODE,
                  _bg_cache, _bg_cache16 >>

EncodeNext ==
  \/ \E c \in EncodedColors : Call_bg_color_block(c)
  \/ \E fg \in EncodedColors, bg \in EncodedColors, ch \in EncodedChars :
       Call_fg_on_bg_char(fg, bg, ch)

SpecEncode == EncodeInit /\ [][EncodeNext]_vars

\* what the encoders compute for a key when nothing is memoized
UncachedBg(m, k) ==
  IF m = "256" THEN << "48;5", rgb_to_ansi256(k[1], k[2], k[3]), " " >>
  ELSE << "bg", nearest_ansi16_code(k)[2], " " >>

UncachedFg(m, k) ==
  IF m = "256"
  THEN << "48;5", rgb_to_ansi256(k[2][1], k[2][2], k[2][3]),
          "38;5", rgb_to_ansi256(k[1][1], k[1][2], k[1][3]), k[3] >>
  ELSE << "bg", nearest_ansi16_code(k[2])[2], "fg", nearest_ansi16_code(k[1])[1], k[3] >>

Kept(table) == \A k \in DOMAIN table : k \in DOMAIN table' /\ table'[k] = table[k]

\* C15: in 256-colour and 16-colour mode every call returns what the first
\* call with that input returned and what the computation without a memo
\* returns; every memo entry is the string of its own key; an entry, once
\* inserted, is neither changed nor removed.
C15_MemoIsTransparent ==
  /\ [](pc = "encode" /\ call # << >> =>
          /\ ret = hist[call]
          /\ ret = IF call[1] = "bg_color_block" THEN UncachedBg(MODE, call[2])
                   ELSE UncachedFg(MODE, call[2])
          /\ \A k \in DOMAIN _bg_cache : _bg_cache[k] = UncachedBg("256", k)
          /\ \A k \in DOMAIN _bg_cache16 : _bg_cache16[k] = UncachedBg("16", k)
          /\ \A k \in DOMAIN _fg_on_bg_cache : _fg_on_bg_cache[k] = UncachedFg("256", k)
          /\ \A k \in DOMAIN _fg_cache16 : _fg_cache16[k] = UncachedFg("16", k))
  /\ [][ pc = "encode" =>
           Kept(_bg_cache) /\ Kept(_bg_cache16) /\ Kept(_fg_on_bg_cache) /\ Kept(_fg_cache16) ]_vars

\* three calls of the text encoder, one of them answered from the memo, the
\* last next to an entry that differs from it only in the character
C15_Witness ==
  /\ pc = "encode" /\ frame = 3 /\ MODE = "256"
  /\ Called("fg_on_bg_char")
  /\ DOMAIN _bg_cache = {}
  /\ Cardinality(DOMAIN _fg_on_bg_cache) = 2
  /\ \E k \in DOMAIN _fg_on_bg_cache :
       k # call[2] /\ k[1] = call[2][1] /\ k[2] = call[2][2]

\* ------------------------------------------------------------------------
\* The block average of load_png_sprite
\* ------------------------------------------------------------------------
\* the None of a sprite cell whose colours are RGB triples
Transparent == << >>

\* pixel (ox, oy) of an ss x ss block given as rows of <<r, g, b, a>>
block_pixel(block, ss, i) == block[(i \div ss) + 1][(i % ss) + 1]

\* over the first n pixels of the block: for ch = 4 the sum of alpha (accum_a),
\* for a colour channel ch the sum of channel * alpha, which is 255 times the
\* source's accum_r, accum_g or accum_b
RECURSIVE block_accum(_, _, _, _)
block_accum(block, ss, ch, n) ==
  IF n = 0 THEN 0
  ELSE LET p == block_pixel(block, ss, n - 1)
       IN  block_accum(block, ss, ch, n - 1) + (IF ch = 4 THEN p[4] ELSE p[ch] * p[4])

\* a block average that drops a cell only when no pixel has any alpha
block_average_zero_alpha_only(block, ss, bg) ==
  LET count == ss * ss
      accum_a == block_accum(block, ss, 4, count)
      final(ch) == round_half_even(block_accum(block, ss, ch, count)
                                     + bg[ch] * (255 * count - accum_a), 255 * count)
  IN  IF accum_a = 0 THEN Transparent
      ELSE << final(1), final(2), final(3) >>

\* one cell of the sprite from its block: avg_a = accum_a / (count * 255);
\* below 0.01 the cell is None, otherwise the un-premultiplied mean colour is
\* laid over the background, avg * avg_a + bg * (1 - avg_a), which is
\* (sum of c*a + bg * (255*count - accum_a)) / (255*count), and rounded
block_average(block, ss, bg) ==
  LET count == ss * ss
      accum_a == block_accum(block, ss, 4, count)
      final(ch) == round_half_even(block_accum(block, ss, ch, count)
                                     + bg[ch] * (255 * count - accum_a), 255 * count)
  IN  IF 100 * accum_a < 255 * count THEN Transparent
      ELSE << final(1), final(2), final(3) >>

\* blocks averaged: every block of the faint and opaque black and white pixels
\* for supersample 1 and 2, and for supersample 3 every block of three of them
BlockPixels ==
  { <<c, c, c, a>> : c \in {0, 255}, a \in {0, 2, 3, 255} }
BlockPixels3 == { <<0, 0, 0, 2>>, <<255, 255, 255, 3>>, <<0, 0, 0, 255>> }
Blocks(ss) ==
  [ 1 .. ss -> [ 1 .. ss -> IF ss >= 3 THEN BlockPixels3 ELSE BlockPixels ] ]

RasterInit ==
  \E ss \in 1 .. 3 : \E block \in Blocks(ss) :
    /\ TerminalIdle(<<24, 80>>) /\ SpritesIdle /\ BodyIdle /\ ScreenIdle
    /\ MODE = "truecolor"
    /\ _bg_cache = << >> /\ _fg_on_bg_cache = << >>
    /\ _bg_cache16 = << >> /\ _fg_cache16 = << >>
    /\ call = << "none", block, ss, <<18, 8, 84>> >> /\ ret = << >>
    /\ pc = "call" /\ frame = 0 /\ now = StartTime
    /\ hist = << >>

Call_block_average ==
  /\ pc = "call"
  /\ call' = [call EXCEPT ![1] = "block_average"]
  /\ ret' = << block_average(call[2], call[3], call[4]) >>
  /\ pc' = "returned"
  /\ UNCHANGED << frame, now, hist, terminal, sprites, body, screen, MODE,
                  _bg_cache, _fg_on_bg_cache, _bg_cache16, _fg_cache16 >>

RasterNext == Call_block_average

SpecRaster == RasterInit /\ [][RasterNext]_vars

\* the alpha values of a block
BlockAlphas(block, ss) == { << oy, ox, block[oy][ox][4] >> : oy \in 1 .. ss, ox \in 1 .. ss }

RECURSIVE SumAlphas(_)
SumAlphas(S) ==
  IF S = {} THEN 0
  ELSE LET e == CHOOSE e \in S : TRUE IN e[3] + SumAlphas(S \ {e})

\* C16: a cell whose mean coverage alpha, (sum of alpha) / (S*S*255), is below
\* 0.01 is transparent whatever the colours of its pixels.
C16_FaintBlockIsTransparent ==
  Called("block_average") =>
    (100 * SumAlphas(BlockAlphas(call[2], call[3])) < 255 * call[3] * call[3]
       => ret[1] = Transparent)

\* a 2x2 block of faint pixels of both colours, some alpha in it, made transparent
C16_Witness ==
  /\ Called("block_average") /\ call[3] = 2
  /\ SumAlphas(BlockAlphas(call[2], call[3])) = 10
  /\ \E oy \in 1 .. 2, ox \in 1 .. 2 : call[2][oy][ox][1] = 255 /\ call[2][oy][ox][4] > 0
  /\ \E oy \in 1 .. 2, ox \in 1 .. 2 : call[2][oy][ox][1] = 0 /\ call[2][oy][ox][4] > 0
  /\ ret[1] = Transparent

\* ---------------------------------------------------------------------------
\* The procedural disc: generate_smooth_circle applied to one radius, one
\* supersampling factor and one base colour.
\* ---------------------------------------------------------------------------

MaxRadius == 4
MaxSupersample == 5

DiscColors == { "planet", "satellite", "white" }

DiscInit ==
  \E r \in 0 .. MaxRadius : \E ss \in 1 .. MaxSupersample : \E c \in DiscColors :
    /\ TerminalIdle(<<24, 80>>) /\ SpritesIdle /\ BodyIdle /\ ScreenIdle
    /\ MODE = "truecolor"
    /\ _bg_cache = << >> /\ _fg_on_bg_cache = << >>
    /\ _bg_cache16 = << >> /\ _fg_cache16 = << >>
    /\ call = << "none", r, c, ss >> /\ ret = << >>
    /\ pc = "call" /\ frame = 0 /\ now = StartTime
    /\ hist = << >>

Call_generate_smooth_circle ==
  /\ pc = "call"
  /\ call' = [call EXCEPT ![1] = "generate_smooth_circle"]
  /\ ret' = << generate_smooth_circle(call[2], call[3], call[4]) >>
  /\ pc' = "returned"
  /\ UNCHANGED << frame, now, hist, terminal, sprites, body, screen, MODE,
                  _bg_cache, _fg_on_bg_cache, _bg_cache16, _fg_cache16 >>

\* simONE_Vthree.py's generate_planet_sprite: no supersampling, a cell is
\* coloured when sqrt(dx*dx + dy*dy) <= radius + 0.25, dx and dy in cells.
generate_planet_sprite(radius) ==
  LET size == radius * 2 + 1
  IN  [ y \in 1 .. size |->
        [ x \in 1 .. size |->
            LET dx == (x - 1) - radius
                dy == (y - 1) - radius
            IN  IF 16 * (dx * dx + dy * dy) <= (4 * radius + 1) * (4 * radius + 1)
                THEN "planet" ELSE None ] ]

Call_generate_planet_sprite ==
  /\ pc = "call"
  /\ call' = << "generate_planet_sprite", call[2] >>
  /\ ret' = << generate_planet_sprite(call[2]) >>
  /\ pc' = "returned"
  /\ UNCHANGED << frame, now, hist, terminal, sprites, body, screen, MODE,
                  _bg_cache, _fg_on_bg_cache, _bg_cache16, _fg_cache16 >>

DiscNext == Call_generate_smooth_circle \/ Call_generate_planet_sprite

SpecDisc == DiscInit /\ [][DiscNext]_vars

\* the grid the last call returned, its radius and its supersampling factor
DiscGrid == ret[1]
DiscRadius == call[2]
DiscSS == IF Len(call) >= 4 THEN call[4] ELSE 1
DiscCalled == Called("generate_smooth_circle") \/ Called("generate_planet_sprite")
DiscCells == (0 .. 2 * DiscRadius) \X (0 .. 2 * DiscRadius)
DiscCell(p) == DiscGrid[p[1] + 1][p[2] + 1]
IsSquareGrid(g, n) == Len(g) = n /\ \A i \in 1 .. n : Len(g[i]) = n

\* squared distance, in cells, of the centre of cell p from the centre cell
CentreDist2(p) ==
  (p[1] - DiscRadius) * (p[1] - DiscRadius) + (p[2] - DiscRadius) * (p[2] - DiscRadius)
\* farther than radius + 0.25 cells: 16 d^2 > (4 radius + 1)^2
BeyondQuarter(p) == 16 * CentreDist2(p) > (4 * DiscRadius + 1) * (4 * DiscRadius + 1)
\* farther than radius + 1 cells
BeyondOne(p) == CentreDist2(p) > (DiscRadius + 1) * (DiscRadius + 1)

\* twice the distance along one axis, in samples, from the supersampled centre
\* to the nearest sample of a cell d cells away from the centre cell
NearSample2(d) ==
  IF d = 0 THEN (DiscSS + 1) % 2 ELSE 2 * Abs(d) * DiscSS - DiscSS + 1
\* the nearest sample of cell p is farther than (radius + 0.25) * S samples
NoSampleInside(p) ==
  LET ny == NearSample2(p[1] - DiscRadius)
      nx == NearSample2(p[2] - DiscRadius)
  IN  4 * (nx * nx + ny * ny) >
        (4 * DiscRadius * DiscSS + DiscSS) * (4 * DiscRadius * DiscSS + DiscSS)

\* C17 as stated: the grid is (2r+1) x (2r+1) and every cell whose centre is
\* farther than r + 0.25 cells from the centre cell is transparent, for every
\* r >= 0 and every S >= 1.
C17_CentreRule ==
  DiscCalled =>
    /\ IsSquareGrid(DiscGrid, 2 * DiscRadius + 1)
    /\ \A p \in DiscCells : BeyondQuarter(p) => DiscCell(p) = None

\* C17 amended: the grid is (2r+1) x (2r+1); a cell is transparent exactly when
\* none of its S x S samples lies within (r + 0.25) * S samples of the
\* supersampled centre; so with S = 1 every cell whose centre is farther than
\* r + 0.25 cells is transparent, and with any S every cell whose centre is
\* farther than r + 1 cells is.
C17_SampleRule ==
  DiscCalled =>
    /\ IsSquareGrid(DiscGrid, 2 * DiscRadius + 1)
    /\ \A p \in DiscCells :
         /\ (DiscCell(p) = None) <=> NoSampleInside(p)
         /\ (DiscSS = 1 /\ BeyondQuarter(p)) => DiscCell(p) = None
         /\ BeyondOne(p) => DiscCell(p) = None

\* a supersampled disc with a coloured cell beyond r + 0.25 and a transparent
\* one beyond r + 1
C17_Witness ==
  /\ Called("generate_smooth_circle") /\ DiscSS > 1
  /\ \E p \in DiscCells : BeyondQuarter(p) /\ DiscCell(p) # None
  /\ \E p \in DiscCells : BeyondOne(p) /\ DiscCell(p) = None

\* C18: a disc of radius 3 is a 7 x 7 grid whose four corner cells are
\* transparent, whatever the supersampling factor and the colour.
C18_RadiusThreeCorners ==
  (Called("generate_smooth_circle") /\ DiscRadius = 3) =>
    /\ IsSquareGrid(DiscGrid, 7)
    /\ \A p \in {0, 6} \X {0, 6} : DiscCell(p) = None

\* a radius 3 disc made with the program's supersampling factor, its centre
\* cell coloured
C18_Witness ==
  /\ Called("generate_smooth_circle") /\ DiscRadius = 3 /\ DiscSS = SMOOTH_LEVEL
  /\ DiscCell(<<3, 3>>) = call[3]
  /\ DiscCell(<<0, 0>>) = None

\* ---------------------------------------------------------------------------
\* Blitting: place_sprite_on_canvas applied to a small canvas, at offsets that
\* hang the sprite over each edge.
\* ---------------------------------------------------------------------------

MaxBlits == 2
BlitRows == 3
BlitCols == 4

BlitSprites ==
  { << << "planet", "planet" >>, << None, "planet" >> >>,
    << << "satellite", None >>, << "satellite", "satellite" >> >>,
    << << None, "white", None >> >> }
BlitTops == { -1, 0, BlitRows - 1 }
BlitLefts == { -1, 1, BlitCols - 1 }

BlitInit ==
  /\ TerminalIdle(<< BlitRows, BlitCols >>) /\ SpritesIdle /\ BodyIdle /\ QuantIdle
  /\ canvas = build_canvas(BlitRows, BlitCols) /\ out = << >> /\ debug = FALSE
  /\ pc = "blit" /\ frame = 0 /\ now = StartTime
  /\ hist = << >>

\* one call of place_sprite_on_canvas; hist keeps the call before it
Blit(sprite, top, left) ==
  /\ pc = "blit" /\ frame < MaxBlits
  /\ canvas' = place_sprite_on_canvas(canvas, sprite, top, left)
  /\ call' = << "place_sprite_on_canvas", sprite, top, left >>
  /\ hist' = call
  /\ frame' = frame + 1
  /\ UNCHANGED << pc, now, out, debug, terminal, sprites, body, MODE,
                  _bg_cache, _fg_on_bg_cache, _bg_cache16, _fg_cache16, ret >>

BlitNext ==
  \E sprite \in BlitSprites : \E top \in BlitTops : \E left \in BlitLefts :
    Blit(sprite, top, left)

SpecBlit == BlitInit /\ [][BlitNext]_vars

\* the canvas coordinates (0-based) a call writes, each with the sprite cell
\* it comes from: in bounds, and the sprite cell has a colour
Targets(c) ==
  { t \in (0 .. BlitRows - 1) \X (0 .. BlitCols - 1) :
      \E sy \in 0 .. Len(c[2]) - 1 : \E sx \in 0 .. Len(c[2][1]) - 1 :
        /\ t = << c[3] + sy, c[4] + sx >>
        /\ c[2][sy + 1][sx + 1] # None }
SpriteColorAt(c, t) == c[2][t[1] - c[3] + 1][t[2] - c[4] + 1]
CanvasCell(cv, t) == cv[t[1] + 1][t[2] + 1]

\* C19: a blit sets exactly the in-bounds cells under a coloured sprite cell,
\* each to that cell's encoded colour, and leaves every other cell as it was
\* (nothing is written for transparent cells or for coordinates outside the
\* canvas, negative ones included); where two blits overlap the later one shows.
C19_BlitWritesTargetsOnly ==
  /\ [][ frame' = frame + 1 =>
           /\ Len(canvas') = BlitRows
           /\ \A t \in (0 .. BlitRows - 1) \X (0 .. BlitCols - 1) :
                /\ Len(canvas'[t[1] + 1]) = BlitCols
                /\ CanvasCell(canvas', t) =
                     IF t \in Targets(call')
                     THEN bg_color_block(SpriteColorAt(call', t))
                     ELSE CanvasCell(canvas, t) ]_vars
  /\ [](frame >= 2 =>
          \A t \in Targets(hist) \cap Targets(call) :
            CanvasCell(canvas, t) = bg_color_block(SpriteColorAt(call, t)))

\* two blits: the later one hangs over the top and left edges, covers a cell
\* the earlier one wrote with another colour, and the bottom row and the right
\* column still show the background
C19_Witness ==
  /\ frame = 2 /\ call[3] < 0 /\ call[4] < 0
  /\ \E t \in Targets(hist) \cap Targets(call) :
       SpriteColorAt(hist, t) # SpriteColorAt(call, t)
  /\ \A c \in 1 .. BlitCols : canvas[BlitRows][c] = bg_color_block("bg_rgb")
  /\ \A r \in 1 .. BlitRows : canvas[r][BlitCols] = bg_color_block("bg_rgb")

\* ---------------------------------------------------------------------------
\* Thrust: the input and physics steps of the loop for a few frames, one
\* frame period apart, with at most one key arriving per frame.
\* ---------------------------------------------------------------------------

MaxThrustTicks == 4

ThrustKeys == { "w", "a", "s", "d", "D" }

ThrustInit ==
  /\ TerminalIdle(<<24, 80>>) /\ SpritesIdle /\ ScreenIdle /\ QuantIdle
  /\ sh = 24 /\ sw = 80 /\ y0 = 12 /\ x0 = 40
  /\ x1 = 50 * Scale /\ y1 = 12 * Scale /\ vx1 = 0 /\ vy1 = 0
  /\ last_key_times = [k \in TrackedKeys |-> 0] /\ key = None /\ thrusting = FALSE
  /\ pc = "input" /\ frame = 0 /\ now = StartTime
  /\ hist = << >>

\* key = read_key_nonblocking_record() with the characters typed since the
\* last frame; neither q nor i is among them
ThrustInput(typed) ==
  /\ pc = "input" /\ frame < MaxThrustTicks
  /\ LET rd == read_key_nonblocking_record(typed, << >>, FALSE, now, last_key_times)
     IN  /\ key' = rd.c
         /\ last_key_times' = rd.times
  /\ pc' = "physics"
  /\ UNCHANGED << frame, now, hist, sh, sw, y0, x0, x1, y1, vx1, vy1, thrusting,
                  terminal, sprites, screen, quant >>

\* the physics of the frame, then the next frame one period later
ThrustTick ==
  /\ pc = "physics"
  /\ LET ph == physics(x1, y1, vx1, vy1, x0, y0, sh, sw, last_key_times, now)
     IN  /\ x1' = ph.x1 /\ y1' = ph.y1 /\ vx1' = ph.vx1 /\ vy1' = ph.vy1
         /\ sw' = ph.sw /\ sh' = ph.sh
         /\ thrusting' = ph.thrusting
  /\ key' = None
  /\ pc' = "input"
  /\ frame' = frame + 1
  /\ now' = now + FRAME_MS
  /\ UNCHANGED << hist, y0, x0, last_key_times, terminal, sprites, screen, quant >>

ThrustNext ==
  \/ ThrustInput(<< >>)
  \/ \E c \in ThrustKeys : ThrustInput(<< c >>)
  \/ ThrustTick

SpecThrust == ThrustInit /\ [][ThrustNext]_vars

\* key k was last seen no longer than the hold timeout ago
Held(k) == now - last_key_times[k] <= HOLD_TIMEOUT
\* the thrust of key k in this tick
ThrustOf(k) == IF Held(k) THEN TH ELSE 0

\* C20: in a physics tick every held directional key adds the thrust magnitude
\* once to its axis with its sign (w: -vy, s: +vy, a: -vx, d: +vx), each key
\* on its own; a key that is not held adds nothing, so two opposite held keys
\* cancel. The centering force and the damping of the tick then act on the sum.
C20_ThrustPerHeldKey ==
  [][ (pc = "physics" /\ pc' = "input") =>
        /\ vx1' = damp(vx1 + ThrustOf("d") - ThrustOf("a") + centering(x1, x0))
        /\ vy1' = damp(vy1 + ThrustOf("s") - ThrustOf("w") + centering(y1, y0))
        /\ thrusting' = (\E k \in {"w", "a", "s", "d"} : Held(k)) ]_vars

\* after a tick in which w, a and d were held and s was not: the opposite
\* keys a and d cancelled and w pushed the body upward
C20_Witness ==
  /\ pc = "input" /\ frame = 3 /\ thrusting
  /\ \A k \in {"w", "a", "d"} : (now - FRAME_MS) - last_key_times[k] <= HOLD_TIMEOUT
  /\ last_key_times["s"] = 0
  /\ vy1 < 0

\* ---------------------------------------------------------------------------
\* Radii and sprite sources across resizes, in the frame loop of main()
\* ---------------------------------------------------------------------------

\* the radius the command line gave and startup accepted, << >> when the
\* radius was derived from the terminal size
AcceptedPlanetSize ==
  IF args.planet_size # NoArg /\ args.planet_size[1] >= 1 THEN args.planet_size ELSE NoArg
AcceptedSatSize ==
  IF args.sat_size # NoArg /\ args.sat_size[1] >= 0 THEN args.sat_size ELSE NoArg

\* C22: a radius startup accepted from the command line (planet size >= 1,
\* satellite size >= 0) is the radius in force in every state of the loop,
\* and a resize handling changes a radius only when it was derived from the
\* terminal size.
C22_ExplicitRadiusKept ==
  /\ [](InLoop =>
          /\ AcceptedPlanetSize # NoArg => planet_radius_cells = AcceptedPlanetSize[1]
          /\ AcceptedSatSize # NoArg => sat_radius = AcceptedSatSize[1])
  /\ [][ (pc = "resize_sprites" /\ pc' = "resize_clear") =>
           /\ planet_radius_cells' # planet_radius_cells => AcceptedPlanetSize = NoArg
           /\ sat_radius' # sat_radius => AcceptedSatSize = NoArg ]_vars

\* a sprite made by load_png_sprite: its cells carry the colour of the file
FromPng(sprite, color_rgb) ==
  \E r \in 1 .. Len(sprite) : \E c \in 1 .. Len(sprite[r]) : sprite[r][c] = color_rgb

\* C23: in every state of the loop a body's PNG flag is set only if the sprite
\* in use for it was made by a PNG load; a body drawn with a generated sprite
\* has its flag clear.
C23_PngFlagMeansPngSprite ==
  InLoop =>
    /\ use_png_planet => FromPng(planet_sprite, "planet_png")
    /\ use_png_sat => \A i \in 1 .. 2 : FromPng(sat_frames[i], "sat_png")

\* ---------------------------------------------------------------------------
\* Holding a key: keys arrive during the first frames only, then the loop
\* runs on without input; a frame lasts the nominal period or longer.
\* ---------------------------------------------------------------------------

KeyFrames == 2
MaxHoldFrames == 6

HoldKeys == { "w", "D" }
\* the pacing sleeps the rest of the period and never catches up
FramePeriods == { FRAME_MS, FRAME_MS + 2 }

HoldInit ==
  /\ TerminalIdle(<<24, 80>>) /\ SpritesIdle /\ ScreenIdle /\ QuantIdle
  /\ sh = 24 /\ sw = 80 /\ y0 = 12 /\ x0 = 40
  /\ x1 = 50 * Scale /\ y1 = 12 * Scale /\ vx1 = 0 /\ vy1 = 0
  /\ last_key_times = [k \in TrackedKeys |-> 0] /\ key = None /\ thrusting = FALSE
  /\ pc = "input" /\ frame = 0 /\ now = StartTime
  /\ hist = [ seen |-> [k \in {"w", "a", "s", "d"} |-> NoArg], thrust_frames |-> 0 ]

\* key = read_key_nonblocking_record(); hist.seen notes when the key that
\* was read, if it is a directional one, was observed
HoldInput(typed) ==
  /\ pc = "input" /\ frame < MaxHoldFrames
  /\ typed # << >> => frame < KeyFrames
  /\ LET rd == read_key_nonblocking_record(typed, << >>, FALSE, now, last_key_times)
     IN  /\ key' = rd.c
         /\ last_key_times' = rd.times
  /\ hist' = IF typed = << >> THEN hist
             ELSE [hist EXCEPT !.seen[Lower(typed[1])] = << now >>]
  /\ pc' = "physics"
  /\ UNCHANGED << frame, now, sh, sw, y0, x0, x1, y1, vx1, vy1, thrusting,
                  terminal, sprites, screen, quant >>

\* the physics of the frame, then the next frame at least one period later
HoldTick(period) ==
  /\ pc = "physics"
  /\ LET ph == physics(x1, y1, vx1, vy1, x0, y0, sh, sw, last_key_times, now)
     IN  /\ x1' = ph.x1 /\ y1' = ph.y1 /\ vx1' = ph.vx1 /\ vy1' = ph.vy1
         /\ sw' = ph.sw /\ sh' = ph.sh
         /\ thrusting' = ph.thrusting
         /\ hist' = [hist EXCEPT !.thrust_frames = IF ph.thrusting THEN @ + 1 ELSE @]
  /\ key' = None
  /\ pc' = "input"
  /\ frame' = frame + 1
  /\ now' = now + period
  /\ UNCHANGED << y0, x0, last_key_times, terminal, sprites, screen, quant >>

HoldNext ==
  \/ HoldInput(<< >>)
  \/ \E c \in HoldKeys : HoldInput(<< c >>)
  \/ \E period \in FramePeriods : HoldTick(period)

\* the loop never stops on its own: a frame that can run does run
SpecHold ==
  /\ HoldInit /\ [][HoldNext]_vars
  /\ WF_vars(HoldInput(<< >>))
  /\ WF_vars(\E period \in FramePeriods : HoldTick(period))

\* key k was observed, and no longer ago than the hold timeout
SeenWithinTimeout(k) ==
  hist.seen[k] # NoArg /\ now - hist.seen[k][1] <= HOLD_TIMEOUT
\* the thrust a tick gives key k when it counts as held
ThrustIfSeen(k) == IF SeenWithinTimeout(k) THEN TH ELSE 0

\* C21: at a frame's thrust step a directional key counts as held exactly when
\* its last observed keypress is no older than the hold timeout: the tick
\* thrusts for every such key and for no other, a key never observed is never
\* held, and once the input stops the thrust eventually stops for good.
C21_HeldWithinTimeout ==
  /\ [][ (pc = "physics" /\ pc' = "input") =>
           /\ thrusting' = (\E k \in {"w", "a", "s", "d"} : SeenWithinTimeout(k))
           /\ vx1' = damp(vx1 + ThrustIfSeen("d") - ThrustIfSeen("a") + centering(x1, x0))
           /\ vy1' = damp(vy1 + ThrustIfSeen("s") - ThrustIfSeen("w") + centering(y1, y0)) ]_vars
  /\ <>[](~thrusting)

\* one key was observed, three frames thrust, and two later frames did not
C21_Witness ==
  /\ pc = "input" /\ frame = 5 /\ ~thrusting
  /\ hist.thrust_frames = 3
  /\ hist.seen["d"] = << StartTime >> /\ hist.seen["w"] = NoArg

====
